---- MODULE Spec2Model ----
(***************************************************************************)
(* Construction of the Aligned Xception network                            *)
(* (timm/models/xception_aligned.py): the stride/dilation planning loop of *)
(* XceptionAligned.__init__, the shortcut policy of XceptionModule, the    *)
(* feature_info table, and reset_classifier.                               *)
(*                                                                         *)
(* A caller owns one block_cfg list whose elements are references to dict  *)
(* objects (the presets build the list with `[dict(...)] * 8`, so one      *)
(* object can sit at several positions) and calls the constructor on that  *)
(* list up to MaxBuilds times, each time with the same output_stride; the  *)
(* constructor writes b['dilation'] and b['stride'] into the caller's      *)
(* dicts.                                                                  *)
(***************************************************************************)
EXTENDS Integers, Sequences, FiniteSets, TLC

VARIABLES
    heap,           \* dict objects of the caller: object id -> dict
    block_cfg,      \* the caller's list: sequence of object ids
    output_stride,  \* the output_stride argument the caller passes
    pc,             \* "idle" | "loop" | "done" | "failed"
    i,              \* number of loop iterations completed (enumerate index)
    curr_stride,    \* local curr_stride (0: not yet assigned)
    curr_dilation,  \* local curr_dilation (0: not yet assigned)
    global_pool,    \* the global_pool argument of the running constructor
    stem,           \* self.stem
    blocks,         \* self.blocks, in add_module order (name = index - 1)
    feature_info,   \* self.feature_info
    num_features,   \* self.num_features (0: attribute not set)
    num_classes,    \* self.num_classes
    drop_rate,      \* self.drop_rate
    head,           \* self.head
    trace,          \* per iteration of this build: stride read, state after
    built,          \* results of the constructor calls that returned
    nbuilds,        \* constructor calls made
    nresets,        \* reset_classifier calls made on the current model
    last_reset      \* arguments of the last reset_classifier call

vars == <<heap, block_cfg, output_stride, pc, i, curr_stride, curr_dilation,
          global_pool, stem, blocks, feature_info, num_features, num_classes,
          drop_rate, head, trace, built, nbuilds, nresets, last_reset>>

(***************************************************************************)
(* Bounds                                                                  *)
(***************************************************************************)
MaxBlocks == 3
MaxBuilds == 2
MaxResets == 2

(***************************************************************************)
(* Program constants                                                       *)
(***************************************************************************)
StemStride == 2
StemChs == 64
StemMidChs == 32
StackLen == 3

PermittedStrides == {8, 16, 32}
OutputStrides == {4, 8, 16, 32}
DefaultPool == "avg"
Omitted == "omitted"

(***************************************************************************)
(* Caller inputs                                                           *)
(***************************************************************************)
Scalar(c) == [tuple |-> FALSE, v |-> <<c>>]
Tuple(t) == [tuple |-> TRUE, v |-> t]

\* A block dict as the caller writes it; 'dilation' is absent (0) until the
\* constructor assigns it.  no_skip / start_with_relu carry the defaults of
\* XceptionModule.__init__ when the caller omits them.
Dict(in, out, s, ns, swr) ==
    [in_chs |-> in, out_chs |-> out, stride |-> s, dilation |-> 0,
     no_skip |-> ns, start_with_relu |-> swr]

PoolHeap ==
    <<Dict(64, Scalar(128), 2, FALSE, TRUE),
      Dict(128, Scalar(128), 1, FALSE, TRUE),
      Dict(128, Scalar(128), 3, FALSE, TRUE),
      Dict(128, Tuple(<<256, 256, 512>>), 2, TRUE, FALSE),
      Dict(128, Tuple(<<128, 256>>), 1, FALSE, TRUE)>>

PoolLists == UNION {[1..n -> DOMAIN PoolHeap] : n \in 0..MaxBlocks}

\* xception41: six dict objects, the middle-flow one listed eight times.
X41Heap ==
    <<Dict(64, Scalar(128), 2, FALSE, TRUE),
      Dict(128, Scalar(256), 2, FALSE, TRUE),
      Dict(256, Scalar(728), 2, FALSE, TRUE),
      Dict(728, Scalar(728), 1, FALSE, TRUE),
      Dict(728, Tuple(<<728, 1024, 1024>>), 2, FALSE, TRUE),
      Dict(1024, Tuple(<<1536, 1536, 2048>>), 1, TRUE, FALSE)>>

X41List == <<1, 2, 3, 4, 4, 4, 4, 4, 4, 4, 4, 5, 6>>

Configs == {[heap |-> PoolHeap, list |-> l] : l \in PoolLists}
           \cup {[heap |-> X41Heap, list |-> X41List]}

CtorArgs == {[num_classes |-> 1000, global_pool |-> "avg", drop_rate |-> 0],
             [num_classes |-> 0, global_pool |-> "max", drop_rate |-> 50]}

ResetArgs == {[num_classes |-> n, global_pool |-> g] :
                 n \in {0, 10}, g \in {Omitted, "max"}}

(***************************************************************************)
(* XceptionModule                                                          *)
(***************************************************************************)
\* isinstance(out_chs, (list, tuple)) ... else out_chs = (out_chs,) * 3
NormOutChs(out) ==
    IF out.tuple THEN out.v ELSE [k \in 1..StackLen |-> out.v[1]]

\* assert len(out_chs) == 3
XceptionModuleRaises(b) == b.out_chs.tuple /\ Len(b.out_chs.v) # StackLen

HasShortcut_And(in, out, stride, no_skip) ==
    ~no_skip /\ (out # in /\ stride # 1)

HasShortcut(in, out, stride, no_skip) ==
    ~no_skip /\ (out # in \/ stride # 1)

StackNames(start_with_relu) ==
    IF start_with_relu
    THEN <<"act1", "conv1", "act2", "conv2", "act3", "conv3">>
    ELSE <<"conv1", "conv2", "conv3">>

XceptionModule_InChsAfterLoop(b) ==
    LET out == NormOutChs(b.out_chs)
        sc  == HasShortcut(b.in_chs, out[StackLen], b.stride, b.no_skip)
    IN [in_channels |-> out[StackLen],
        out_channels |-> out[StackLen],
        no_skip |-> b.no_skip,
        shortcut |-> IF sc THEN "ConvBnAct" ELSE "None",
        shortcut_stride |-> IF sc THEN b.stride ELSE 0,
        stack |-> StackNames(b.start_with_relu),
        conv_stride |-> [k \in 1..StackLen |-> IF k = StackLen THEN b.stride ELSE 1],
        conv_dilation |-> b.dilation]

XceptionModule(b) ==
    LET out == NormOutChs(b.out_chs)
        sc  == HasShortcut(b.in_chs, out[StackLen], b.stride, b.no_skip)
    IN [in_channels |-> b.in_chs,
        out_channels |-> out[StackLen],
        no_skip |-> b.no_skip,
        shortcut |-> IF sc THEN "ConvBnAct" ELSE "None",
        shortcut_stride |-> IF sc THEN b.stride ELSE 0,
        stack |-> StackNames(b.start_with_relu),
        conv_stride |-> [k \in 1..StackLen |-> IF k = StackLen THEN b.stride ELSE 1],
        conv_dilation |-> b.dilation]

\* XceptionModule.forward on a symbolic input x.
Forward(m) ==
    LET skip0 == "x"
        x1    == "stack(x)"
        skip  == IF m.shortcut # "None" THEN "shortcut(x)" ELSE skip0
    IN IF ~m.no_skip THEN x1 \o "+" \o skip ELSE x1

(***************************************************************************)
(* ClassifierHead                                                          *)
(***************************************************************************)
NoHead == [in_chs |-> 0, fc |-> "None", out_features |-> 0,
           pool_type |-> "None", drop_rate |-> 0]

ClassifierHead(in_chs, n, pool_type, drop) ==
    [in_chs |-> in_chs,
     fc |-> IF n > 0 THEN "Linear" ELSE "Identity",
     out_features |-> IF n > 0 THEN n ELSE in_chs,
     pool_type |-> pool_type,
     drop_rate |-> drop]

(***************************************************************************)
(* The planning step of the construction loop                              *)
(***************************************************************************)
PlanBlock_CapOnCurrent(cs, cd, s, os) ==
    LET absorb == s > 1 /\ cs > os
        accept == s > 1 /\ ~(cs > os)
    IN [dilation |-> cd,
        feature_extract |-> s > 1,
        stride |-> IF absorb THEN 1 ELSE s,
        curr_dilation |-> IF absorb THEN cd * s ELSE cd,
        curr_stride |-> IF accept THEN cs * s ELSE cs]

PlanBlock_AddDilation(cs, cd, s, os) ==
    LET absorb == s > 1 /\ cs * s > os
        accept == s > 1 /\ ~(cs * s > os)
    IN [dilation |-> cd,
        feature_extract |-> s > 1,
        stride |-> IF absorb THEN 1 ELSE s,
        curr_dilation |-> IF absorb THEN cd + s ELSE cd,
        curr_stride |-> IF accept THEN cs * s ELSE cs]

PlanBlock_DilationAfter(cs, cd, s, os) ==
    LET absorb == s > 1 /\ cs * s > os
        accept == s > 1 /\ ~(cs * s > os)
    IN [dilation |-> IF absorb THEN cd * s ELSE cd,
        feature_extract |-> s > 1,
        stride |-> IF absorb THEN 1 ELSE s,
        curr_dilation |-> IF absorb THEN cd * s ELSE cd,
        curr_stride |-> IF accept THEN cs * s ELSE cs]

PlanBlock_FlagOnAccept(cs, cd, s, os) ==
    LET absorb == s > 1 /\ cs * s > os
        accept == s > 1 /\ ~(cs * s > os)
    IN [dilation |-> cd,
        feature_extract |-> accept,
        stride |-> IF absorb THEN 1 ELSE s,
        curr_dilation |-> IF absorb THEN cd * s ELSE cd,
        curr_stride |-> IF accept THEN cs * s ELSE cs]

\* One pass through lines 161-170 for a block whose b['stride'] reads s:
\* the values written to b['dilation'] and b['stride'], the flag, and the
\* new running pair.
PlanBlock(cs, cd, s, os) ==
    LET absorb == s > 1 /\ cs * s > os
        accept == s > 1 /\ ~(cs * s > os)
    IN [dilation |-> cd,
        feature_extract |-> s > 1,
        stride |-> IF absorb THEN 1 ELSE s,
        curr_dilation |-> IF absorb THEN cd * s ELSE cd,
        curr_stride |-> IF accept THEN cs * s ELSE cs]

ValidOutputStride_Any(os) == TRUE

ValidOutputStride(os) == os \in PermittedStrides

FeatureEntry(chs, red, mod) == [num_chs |-> chs, reduction |-> red, module |-> mod]

BlockName(k) == "blocks." \o ToString(k)

NewStem == <<[in_chs |-> 3, out_chs |-> StemMidChs, stride |-> StemStride],
             [in_chs |-> StemMidChs, out_chs |-> StemChs, stride |-> 1]>>

(***************************************************************************)
(* Initial state: the caller holds a config list; no model exists yet.     *)
(***************************************************************************)
Init ==
    /\ \E c \in Configs : heap = c.heap /\ block_cfg = c.list
    /\ output_stride \in OutputStrides
    /\ pc = "idle"
    /\ i = 0
    /\ curr_stride = 0
    /\ curr_dilation = 0
    /\ global_pool = "None"
    /\ stem = <<>>
    /\ blocks = <<>>
    /\ feature_info = <<>>
    /\ num_features = 0
    /\ num_classes = 0
    /\ drop_rate = 0
    /\ head = NoHead
    /\ trace = <<>>
    /\ built = <<>>
    /\ nbuilds = 0
    /\ nresets = 0
    /\ last_reset = [num_classes |-> 0, global_pool |-> Omitted]

CanConstruct == pc \in {"idle", "done", "failed"} /\ nbuilds < MaxBuilds

\* XceptionAligned.__init__ up to the loop, with a permitted output_stride.
Construct ==
    /\ CanConstruct
    /\ ValidOutputStride(output_stride)
    /\ \E a \in CtorArgs :
          /\ num_classes' = a.num_classes
          /\ drop_rate' = a.drop_rate
          /\ global_pool' = a.global_pool
    /\ stem' = NewStem
    /\ curr_dilation' = 1
    /\ curr_stride' = StemStride
    /\ feature_info' = <<FeatureEntry(StemChs, StemStride, "stem.1")>>
    /\ blocks' = <<>>
    /\ num_features' = 0
    /\ head' = NoHead
    /\ i' = 0
    /\ trace' = <<>>
    /\ nresets' = 0
    /\ nbuilds' = nbuilds + 1
    /\ pc' = "loop"
    /\ UNCHANGED <<heap, block_cfg, output_stride, built, last_reset>>

\* XceptionAligned.__init__ with an output_stride the assert rejects: the
\* object under construction has num_classes and drop_rate, nothing else.
ConstructRejected ==
    /\ CanConstruct
    /\ ~ValidOutputStride(output_stride)
    /\ \E a \in CtorArgs :
          /\ num_classes' = a.num_classes
          /\ drop_rate' = a.drop_rate
          /\ global_pool' = a.global_pool
    /\ stem' = <<>>
    /\ curr_dilation' = 0
    /\ curr_stride' = 0
    /\ feature_info' = <<>>
    /\ blocks' = <<>>
    /\ num_features' = 0
    /\ head' = NoHead
    /\ i' = 0
    /\ trace' = <<>>
    /\ nresets' = 0
    /\ nbuilds' = nbuilds + 1
    /\ pc' = "failed"
    /\ UNCHANGED <<heap, block_cfg, output_stride, built, last_reset>>

\* One iteration of `for i, b in enumerate(block_cfg)`.
BlockStep ==
    /\ pc = "loop"
    /\ i < Len(block_cfg)
    /\ LET id == block_cfg[i + 1]
           b  == heap[id]
           p  == PlanBlock(curr_stride, curr_dilation, b.stride, output_stride)
           b2 == [b EXCEPT !.dilation = p.dilation, !.stride = p.stride]
           m  == XceptionModule(b2)
       IN /\ heap' = [heap EXCEPT ![id] = b2]
          /\ curr_stride' = p.curr_stride
          /\ curr_dilation' = p.curr_dilation
          /\ trace' = Append(trace, [declared |-> b.stride,
                                     curr_stride |-> p.curr_stride,
                                     curr_dilation |-> p.curr_dilation])
          /\ IF XceptionModuleRaises(b2)
             THEN /\ pc' = "failed"
                  /\ UNCHANGED <<blocks, num_features, feature_info, i>>
             ELSE /\ pc' = "loop"
                  /\ blocks' = Append(blocks, m)
                  /\ num_features' = m.out_channels
                  /\ feature_info' =
                        IF p.feature_extract
                        THEN Append(feature_info,
                                    FeatureEntry(m.out_channels, p.curr_stride,
                                                 BlockName(i) \o ".stack.act2"))
                        ELSE feature_info
                  /\ i' = i + 1
    /\ UNCHANGED <<block_cfg, output_stride, global_pool, stem, num_classes,
                   drop_rate, head, built, nbuilds, nresets, last_reset>>

\* After the loop: the trailing feature_info entry and the head.  With an
\* empty block_cfg self.num_features was never assigned and reading it raises.
Finish ==
    /\ pc = "loop"
    /\ i = Len(block_cfg)
    /\ IF num_features = 0
       THEN /\ pc' = "failed"
            /\ UNCHANGED <<feature_info, head, built>>
       ELSE /\ pc' = "done"
            /\ feature_info' = Append(feature_info,
                  FeatureEntry(num_features, curr_stride, BlockName(Len(blocks) - 1)))
            /\ head' = ClassifierHead(num_features, num_classes, global_pool, drop_rate)
            /\ built' = Append(built,
                  [eff |-> [k \in 1..Len(blocks) |->
                              <<blocks[k].conv_stride[StackLen], blocks[k].conv_dilation>>],
                   curr_stride |-> curr_stride,
                   curr_dilation |-> curr_dilation,
                   feature_info |-> feature_info'])
    /\ UNCHANGED <<heap, block_cfg, output_stride, i, curr_stride, curr_dilation,
                   global_pool, stem, blocks, num_features, num_classes, drop_rate,
                   trace, nbuilds, nresets, last_reset>>

ResetHead_DropDefault(nf, n, gp, drop) ==
    ClassifierHead(nf, n, IF gp = Omitted THEN DefaultPool ELSE gp, 0)

\* self.head = ClassifierHead(self.num_features, num_classes,
\*                            pool_type=global_pool, drop_rate=self.drop_rate)
ResetHead(nf, n, gp, drop) ==
    ClassifierHead(nf, n, IF gp = Omitted THEN DefaultPool ELSE gp, drop)

reset_classifier ==
    /\ pc = "done"
    /\ nresets < MaxResets
    /\ \E a \in ResetArgs :
          /\ head' = ResetHead(num_features, a.num_classes, a.global_pool, drop_rate)
          /\ last_reset' = a
    /\ nresets' = nresets + 1
    /\ UNCHANGED <<heap, block_cfg, output_stride, pc, i, curr_stride, curr_dilation,
                   global_pool, stem, blocks, feature_info, num_features, num_classes,
                   drop_rate, trace, built, nbuilds>>

Next ==
    \/ Construct
    \/ ConstructRejected
    \/ BlockStep
    \/ Finish
    \/ reset_classifier

Spec == Init /\ [][Next]_vars

(***************************************************************************)
(* Names the built chain answers to (nn.Sequential / add_module naming).   *)
(***************************************************************************)
ModuleNames ==
    {"stem." \o ToString(k - 1) : k \in 1..Len(stem)}
    \cup {BlockName(k - 1) : k \in 1..Len(blocks)}
    \cup UNION {{BlockName(k - 1) \o ".stack." \o blocks[k].stack[j] :
                    j \in 1..Len(blocks[k].stack)} : k \in 1..Len(blocks)}

(***************************************************************************)
(* Vocabulary of the properties                                            *)
(***************************************************************************)
\* The running pair before iteration k of the current build.
StrideBefore(k) == IF k = 1 THEN StemStride ELSE trace[k - 1].curr_stride
DilationBefore(k) == IF k = 1 THEN 1 ELSE trace[k - 1].curr_dilation

\* Iteration k read a stride > 1 whose acceptance would pass output_stride.
Absorbed(k) ==
    /\ trace[k].declared > 1
    /\ StrideBefore(k) * trace[k].declared > output_stride

RECURSIVE AbsorbedProduct(_)
AbsorbedProduct(k) ==
    IF k = 0 THEN 1
    ELSE (IF Absorbed(k) THEN trace[k].declared ELSE 1) * AbsorbedProduct(k - 1)

\* The constructor got past the assert (the planner state exists).
Planning == feature_info # <<>>

X41Strides == <<2, 2, 2, 1, 1, 1, 1, 1, 1, 1, 1, 2, 1>>
ReadStrides == [k \in 1..Len(trace) |-> trace[k].declared]

\* Channel count feeding block k of the chain under construction.
PrevChs(k) == IF k = 1 THEN StemChs ELSE blocks[k - 1].out_channels
DeclaredMismatch(k) == heap[block_cfg[k]].in_chs # PrevChs(k)

\* C1: with a permitted output_stride, curr_stride is 2 after the stem and
\* is <= output_stride after every block and at the end of construction; a
\* block whose stride (as the loop reads it) would take curr_stride past
\* output_stride leaves curr_stride unchanged.
C1_StrideBounded ==
    Planning =>
        /\ trace = <<>> => curr_stride = StemStride
        /\ curr_stride <= output_stride
        /\ \A k \in 1..Len(trace) :
              /\ trace[k].curr_stride <= output_stride
              /\ Absorbed(k) => trace[k].curr_stride = StrideBefore(k)

C1_Witness ==
    /\ pc = "done"
    /\ curr_stride = output_stride
    /\ \E k \in 1..Len(trace) : Absorbed(k)

C3_Original ==
    (pc = "done" /\ output_stride = 16 /\ ReadStrides = X41Strides) =>
        /\ blocks[12].conv_stride[StackLen] = 1
        /\ blocks[12].conv_dilation = 2
        /\ curr_stride = 16

\* C3 (amended): output_stride 16 and strides [2,2,2,1 x8,2,1]: block
\* index 11 is built with stride 1 and the dilation in force before it, 1;
\* the running dilation becomes 2 and is the dilation of block index 12;
\* curr_stride ends at 16.
C3_Amended ==
    (pc = "done" /\ output_stride = 16 /\ ReadStrides = X41Strides) =>
        /\ blocks[12].conv_stride[StackLen] = 1
        /\ blocks[12].conv_dilation = 1
        /\ blocks[13].conv_dilation = 2
        /\ curr_dilation = 2
        /\ curr_stride = 16

C3_Witness ==
    /\ pc = "done"
    /\ output_stride = 16
    /\ ReadStrides = X41Strides
    /\ heap[block_cfg[12]].stride = 1

\* C4 (as claimed): len(feature_info) after construction is the number of
\* blocks whose stride read > 1, plus 1.
C4_Original ==
    pc = "done" =>
        Len(feature_info) = Cardinality({k \in 1..Len(trace) : trace[k].declared > 1}) + 1

\* C4 (amended): len(feature_info) after construction is the number of
\* blocks whose stride read > 1 (accepted or absorbed), plus 2: the leading
\* 'stem.1' entry and the trailing entry.
C4_Amended ==
    pc = "done" =>
        /\ Len(feature_info) = Cardinality({k \in 1..Len(trace) : trace[k].declared > 1}) + 2
        /\ feature_info[1].module = "stem.1"

C4_Witness ==
    /\ pc = "done"
    /\ \E k \in 1..Len(trace) : Absorbed(k)
    /\ \E k \in 1..Len(trace) : trace[k].declared > 1 /\ ~Absorbed(k)
    /\ \E k \in 1..Len(trace) : trace[k].declared = 1

\* C5: the shortcut of every constructed block follows the three-way
\* policy: no_skip -> no shortcut, output = stack; otherwise channels or
\* stride differ -> projection with the block's stride, output = stack +
\* projection(input); otherwise no projection, output = stack + input.
C5_ShortcutPolicy ==
    \A k \in 1..Len(blocks) :
        LET m == blocks[k]
            s == m.conv_stride[StackLen]
        IN /\ m.no_skip =>
                 m.shortcut = "None" /\ Forward(m) = "stack(x)"
           /\ (~m.no_skip /\ (m.out_channels # m.in_channels \/ s # 1)) =>
                 /\ m.shortcut = "ConvBnAct"
                 /\ m.shortcut_stride = s
                 /\ Forward(m) = "stack(x)+shortcut(x)"
           /\ (~m.no_skip /\ m.out_channels = m.in_channels /\ s = 1) =>
                 m.shortcut = "None" /\ Forward(m) = "stack(x)+x"
           /\ (m.in_channels = 728 /\ m.out_channels = 1024 /\ s = 2 /\ ~m.no_skip) =>
                 m.shortcut = "ConvBnAct"

C5_Witness ==
    /\ pc = "done"
    /\ \E k \in 1..Len(blocks) :
          /\ blocks[k].in_channels = 728 /\ blocks[k].out_channels = 1024
          /\ blocks[k].conv_stride[StackLen] = 2 /\ blocks[k].shortcut = "ConvBnAct"
    /\ \E k \in 1..Len(blocks) : ~blocks[k].no_skip /\ blocks[k].shortcut = "None"
    /\ \E k \in 1..Len(blocks) : blocks[k].no_skip

\* C6: with an output_stride outside {8,16,32} every constructor call fails
\* before planning: no dict was written, no block, stem, feature_info or
\* head exists and no call has returned.
C6_RejectedBeforePlanning ==
    output_stride \notin PermittedStrides =>
        /\ pc \in {"idle", "failed"}
        /\ heap \in {PoolHeap, X41Heap}
        /\ blocks = <<>> /\ stem = <<>> /\ feature_info = <<>>
        /\ trace = <<>> /\ head = NoHead /\ built = <<>>

C6_Witness ==
    /\ output_stride \notin PermittedStrides
    /\ pc = "failed"
    /\ nbuilds = MaxBuilds
    /\ block_cfg # <<>>

\* C7 (as claimed): a block whose declared in_chs differs from the channel
\* count feeding it is never constructed, and no network with one is
\* returned.
C7_Original ==
    \A k \in 1..Len(blocks) : ~DeclaredMismatch(k)

\* C7 (amended): the constructor makes no channel check: every block is
\* built with its declared in_chs, matching or not, and a constructor call
\* that got past the output_stride assert fails only on an empty block list
\* or a channel tuple whose length is not 3.
C7_Amended ==
    /\ \A k \in 1..Len(blocks) : blocks[k].in_channels = heap[block_cfg[k]].in_chs
    /\ (pc = "failed" /\ Planning) =>
          \/ block_cfg = <<>>
          \/ i < Len(block_cfg) /\ XceptionModuleRaises(heap[block_cfg[i + 1]])

C7_Witness ==
    /\ pc = "done"
    /\ DeclaredMismatch(1)
    /\ \E k \in 2..Len(blocks) : DeclaredMismatch(k)

\* The frame of one reset_classifier call.
ResetFrame ==
    /\ num_features' = num_features
    /\ stem' = stem
    /\ blocks' = blocks
    /\ feature_info' = feature_info
    /\ drop_rate' = drop_rate
    /\ head'.drop_rate = drop_rate
    /\ head'.in_chs = num_features
    /\ head'.fc = (IF last_reset'.num_classes = 0 THEN "Identity" ELSE "Linear")
    /\ head'.out_features =
          (IF last_reset'.num_classes = 0 THEN num_features ELSE last_reset'.num_classes)

\* C8 (as claimed): a reset_classifier call changes only the projection
\* width; with no pooling kind passed the head's pooling kind is as before.
C8_Original ==
    [][nresets' = nresets + 1 =>
          /\ ResetFrame
          /\ last_reset'.global_pool = Omitted => head'.pool_type = head.pool_type]_vars

\* C8 (amended): a reset_classifier call leaves num_features, stem, blocks,
\* feature_info and drop_rate as they were and replaces the head: n outputs
\* (identity when n = 0) over num_features inputs, the model's drop rate,
\* and the pooling kind passed, 'avg' when none is passed.
C8_Amended ==
    [][nresets' = nresets + 1 =>
          /\ ResetFrame
          /\ head'.pool_type = (IF last_reset'.global_pool = Omitted
                                THEN "avg" ELSE last_reset'.global_pool)]_vars

C8_Witness ==
    /\ nresets = 2
    /\ last_reset.global_pool = Omitted
    /\ last_reset.num_classes = 10
    /\ global_pool = "max"
    /\ drop_rate = 50
    /\ head.pool_type = "avg"

\* C9: every constructor call that returns, on the same list object and the
\* same output_stride, yields the same effective (stride, dilation) pairs,
\* the same final pair and the same feature_info.
C9_Deterministic ==
    \A a, b \in DOMAIN built : built[a] = built[b]

\* C10: every module name in the feature_info of a built network names a
\* module of the chain.
C10_FeatureModulesExist ==
    pc = "done" =>
        \A k \in DOMAIN feature_info : feature_info[k].module \in ModuleNames

====
